---- MODULE Spec2Model ----
(***************************************************************************)
(* Model of scripts/ninja_determinism_test.py: the build-graph determinism *)
(* verifier.  Byte strings and paths are sequences of one-character        *)
(* strings, so that the directive scanner, the path re-rooting and the     *)
(* cumulative hashing work on the bytes the program works on.              *)
(***************************************************************************)
EXTENDS Integers, Sequences, FiniteSets, TLC

VARIABLES
  product,      \* the Product constructed, <<>> while there is none
  pc,           \* position of main(): the Orchestrator's state
  build,        \* build[i]: state of the i-th run_make_nothing coroutine
  build_log,    \* build_log[i]: contents of <out_dir i>/build.log
  success,      \* success[i]: the flag gather() returned for build i
  files,        \* the file system: normalised path -> bytes
  stack,        \* call stack of transitively_included_ninja_files
  seen,         \* the seen dict of the resolution in progress (its keys)
  opened,       \* every file the resolution in progress has read, in order
  ninja_files,  \* ninja_files[i]: the manifest returned for tree i
  dist,         \* archives in the dist dir: zip name -> member names
  fed,          \* fed[i]: the files whose bytes hash_files fed to hasher i
  hash,         \* hash[i]: <<>> before hash_files returned, then <<digest>>
  stdout,       \* lines printed to standard output
  stderr,       \* lines printed to the error stream
  exit_code     \* the process's exit code once pc is terminal

vars == <<product, pc, build, build_log, success, files, stack, seen, opened,
          ninja_files, dist, fed, hash, stdout, stderr, exit_code>>

(***************************************************************************)
(* Bounds of the model.                                                    *)
(***************************************************************************)
\* files a tree of the resolver's graph family holds (the root included)
NumFiles == 3
\* directives a tree of the resolver's graph family holds in total
MaxEdges == 3
\* frames the interpreter allows on the call stack before RecursionError
MaxDepth == 6

(***************************************************************************)
(* Byte strings.                                                           *)
(***************************************************************************)
NL == "\n"
CR == "\r"
DOLLAR == "$"
\* the byte 0xFF, which occurs in no UTF-8 encoding
BYTE_FF == "0xFF"
SLASH == "/"

KW_INCLUDE == <<"i","n","c","l","u","d","e"," ">>
KW_SUBNINJA == <<"s","u","b","n","i","n","j","a"," ">>
OUT_PREFIX == <<"o","u","t","/">>

\* s[i:j] of Python, 0 <= i, j clipped to the length
Slice(s, i, j) == SubSeq(s, i + 1, IF j > Len(s) THEN Len(s) ELSE j)

\* s[i:].startswith(pat)
startswith_at(s, pat, i) ==
  /\ i + Len(pat) <= Len(s)
  /\ SubSeq(s, i + 1, i + Len(pat)) = pat

startswith(s, pat) == startswith_at(s, pat, 0)

endswith(s, pat) ==
  /\ Len(pat) <= Len(s)
  /\ SubSeq(s, Len(s) - Len(pat) + 1, Len(s)) = pat

removeprefix(s, pat) ==
  IF startswith(s, pat) THEN SubSeq(s, Len(pat) + 1, Len(s)) ELSE s

removesuffix(s, pat) ==
  IF endswith(s, pat) THEN SubSeq(s, 1, Len(s) - Len(pat)) ELSE s

\* s.find(ch, i): the least offset j >= i with s[j] = ch, or -1
find(s, ch, i) ==
  LET hits == {j \in i..(Len(s) - 1) : s[j + 1] = ch}
  IN  IF hits = {} THEN -1
      ELSE CHOOSE j \in hits : \A k \in hits : j <= k

Contains(s, ch) == \E k \in 1..Len(s) : s[k] = ch

RECURSIVE Concat(_)
Concat(ss) == IF Len(ss) = 0 THEN <<>> ELSE Head(ss) \o Concat(Tail(ss))

(***************************************************************************)
(* Directive Scanner: find_subninjas_and_includes.                         *)
(***************************************************************************)
\* get_path_from_directive(i), before the check for '$'
get_path_from_directive(contents, i) ==
  LET j == find(contents, NL, i)
      path_bytes == IF j < 0 THEN Slice(contents, i, Len(contents))
                    ELSE Slice(contents, i, j)
  IN  removesuffix(path_bytes, <<CR>>)

\* the keyword and its space match wherever they stand, not only after '\n'
regex_match_end_anywhere(contents, pos) ==
  IF startswith_at(contents, KW_INCLUDE, pos) THEN pos + Len(KW_INCLUDE)
  ELSE IF startswith_at(contents, KW_SUBNINJA, pos) THEN pos + Len(KW_SUBNINJA)
  ELSE -1

\* SUBNINJA_OR_INCLUDE_REGEX.match at offset pos: the match's end, or -1
regex_match_end(contents, pos) ==
  IF startswith_at(contents, <<NL>> \o KW_INCLUDE, pos)
    THEN pos + 1 + Len(KW_INCLUDE)
  ELSE IF startswith_at(contents, <<NL>> \o KW_SUBNINJA, pos)
    THEN pos + 1 + Len(KW_SUBNINJA)
  ELSE -1

\* SUBNINJA_OR_INCLUDE_REGEX.finditer(contents) from offset pos: the ends of
\* the non-overlapping matches, left to right; each search finds the
\* leftmost match at or after pos and the next search starts at its end
RECURSIVE regex_finditer(_, _)
regex_finditer(contents, pos) ==
  LET starts == {p \in pos..(Len(contents) - 1) : regex_match_end(contents, p) >= 0}
  IN  IF starts = {} THEN <<>>
      ELSE LET p == CHOOSE q \in starts : \A r \in starts : q <= r
               e == regex_match_end(contents, p)
           IN  <<e>> \o regex_finditer(contents, e)

\* the offsets get_path_from_directive is called with, in call order
directive_offsets(contents) ==
  (IF startswith(contents, KW_INCLUDE) THEN <<Len(KW_INCLUDE)>>
   ELSE IF startswith(contents, KW_SUBNINJA) THEN <<Len(KW_SUBNINJA)>>
   ELSE <<>>)
  \o regex_finditer(contents, 0)

\* path_bytes.decode(): UnicodeDecodeError when the bytes are not UTF-8; the
\* other bytes of the model are ASCII and decode to themselves
decode(path_bytes) ==
  [raised |-> Contains(path_bytes, BYTE_FF), path |-> path_bytes]

\* the first of the paths, in order, that get_path_from_directive does not
\* return: its call raises or exits; 0 when every call returns
first_failing(paths) ==
  LET stops == {k \in 1..Len(paths) :
                  decode(paths[k]).raised \/ Contains(decode(paths[k]).path, DOLLAR)}
  IN  IF stops = {} THEN 0 ELSE CHOOSE k \in stops : \A j \in stops : k <= j

\* a directive whose path holds '$' is left out and the scan goes on
find_subninjas_and_includes_skipping(contents) ==
  LET offs == directive_offsets(contents)
      paths == [k \in 1..Len(offs) |-> get_path_from_directive(contents, offs[k])]
      kept == SelectSeq(paths, LAMBDA q : ~Contains(q, DOLLAR))
      k == first_failing(kept)
  IN  [exited |-> FALSE, raised |-> k # 0, results |-> IF k # 0 THEN <<>> ELSE kept]

\* find_subninjas_and_includes(contents): raised is TRUE when decoding a path
\* raised UnicodeDecodeError, exited is TRUE when a path holds '$' and
\* sys.exit was called (no list is returned in either case), results is the
\* returned list otherwise
find_subninjas_and_includes(contents) ==
  LET offs == directive_offsets(contents)
      paths == [k \in 1..Len(offs) |-> get_path_from_directive(contents, offs[k])]
      k == first_failing(paths)
      raised == k # 0 /\ decode(paths[k]).raised
  IN  [exited |-> k # 0 /\ ~raised,
       raised |-> raised,
       results |-> IF k # 0 THEN <<>>
                   ELSE [j \in 1..Len(paths) |-> decode(paths[j]).path]]

(***************************************************************************)
(* Paths: os.path.join, and the path resolution open() performs.           *)
(***************************************************************************)
os_path_join(a, b) ==
  IF startswith(b, <<SLASH>>) THEN b
  ELSE IF a = <<>> \/ endswith(a, <<SLASH>>) THEN a \o b
  ELSE a \o <<SLASH>> \o b

\* the components of a path, split at '/'
RECURSIVE split_path(_)
split_path(p) ==
  LET j == find(p, SLASH, 0)
  IN  IF j < 0 THEN <<p>>
      ELSE <<Slice(p, 0, j)>> \o split_path(Slice(p, j + 1, Len(p)))

\* the components left after '', '.' and '..' are resolved
RECURSIVE resolve_components(_, _)
resolve_components(done, rest) ==
  IF rest = <<>> THEN done
  ELSE LET c == Head(rest)
       IN  IF c = <<>> \/ c = <<".">> THEN resolve_components(done, Tail(rest))
           ELSE IF c = <<".", ".">> /\ done # <<>> /\ done[Len(done)] # <<".", ".">>
             THEN resolve_components(SubSeq(done, 1, Len(done) - 1), Tail(rest))
           ELSE resolve_components(Append(done, c), Tail(rest))

RECURSIVE join_components(_)
join_components(cs) ==
  IF cs = <<>> THEN <<>>
  ELSE IF Len(cs) = 1 THEN cs[1]
  ELSE cs[1] \o <<SLASH>> \o join_components(Tail(cs))

\* the file a path names: the key of the file system
normpath(p) ==
  (IF startswith(p, <<SLASH>>) THEN <<SLASH>> ELSE <<>>)
  \o join_components(resolve_components(<<>>, split_path(p)))

(***************************************************************************)
(* The names main() works with.                                            *)
(***************************************************************************)
\* os.getenv('OUT_DIR', 'out'), the variable unset
OUT_DIR == <<"o","u","t">>

\* product.product of the Product main() constructs
TARGET_PRODUCT ==
  <<"a","o","s","p","_","c","f","_","x","8","6","_","6","4","_","p","h","o","n","e">>

\* its release and its variant
TARGET_RELEASE == <<"t","r","u","n","k","_","s","t","a","g","i","n","g">>
TARGET_BUILD_VARIANT == <<"u","s","e","r","d","e","b","u","g">>

out_dir(t) ==
  os_path_join(OUT_DIR,
    <<"d","e","t","e","r","m","i","n","i","s","m","_","t","e","s","t","_","o","u","t">>
    \o (IF t = 1 THEN <<"1">> ELSE <<"2">>))

\* f'combined-{product.product}.ninja'
ROOT_NAME ==
  <<"c","o","m","b","i","n","e","d","-">> \o TARGET_PRODUCT \o <<".","n","i","n","j","a">>

root_file(t) == os_path_join(out_dir(t), ROOT_NAME)

\* both archives under the first name
zip_name_same(t) == "determinism_test_files_1.zip"

\* the zip_name main() passes to dist_ninja_files for tree t
zip_name(t) ==
  IF t = 1 THEN "determinism_test_files_1.zip" ELSE "determinism_test_files_2.zip"

MSG_BUILD_FAILED == "build failed"
MSG_NOT_DETERMINISTIC ==
  "ninja files were not deterministic! See disted determinism_test_files_1/2.zip"
MSG_SUCCESS == "Success, ninja files were deterministic"
MSG_VARIABLES == "includes/subninjas with variables are unsupported: "

(***************************************************************************)
(* The file system.                                                        *)
(***************************************************************************)
isfile(path) == normpath(path) \in DOMAIN files

\* open(path, 'rb').read()
read(path) == files[normpath(path)]

basename(p) ==
  LET cs == split_path(p) IN cs[Len(cs)]

\* os.path.relpath(path, start), both relative to the working directory
relpath(path, start) ==
  LET p == resolve_components(<<>>, split_path(path))
      s == resolve_components(<<>>, split_path(start))
      m == IF Len(p) < Len(s) THEN Len(p) ELSE Len(s)
      same == {k \in 0..m : SubSeq(p, 1, k) = SubSeq(s, 1, k)}
      c == CHOOSE k \in same : \A j \in same : j <= k
      up == [k \in 1..(Len(s) - c) |-> <<".", ".">>]
      rel == up \o SubSeq(p, c + 1, Len(p))
  IN  IF rel = <<>> THEN <<".">> ELSE join_components(rel)

(***************************************************************************)
(* Build trees: what one build leaves in its output directory.  A tree     *)
(* maps a file's name under the output directory to its bytes.  A file     *)
(* holds its directive lines, then its payload (the rest of its rules).    *)
(***************************************************************************)
FileLetters == <<"a", "b", "c", "d", "e", "f">>
PayloadLetters == <<"p", "q", "r", "s", "t", "u", "v">>

\* the name of the i-th file of a tree; the first is the root
FileName(i) == IF i = 1 THEN ROOT_NAME ELSE <<FileLetters[i - 1]>>

\* the path a build writes in a directive for the i-th file: the build runs
\* with its output directory mounted at out/
DirectivePath(i) == OUT_PREFIX \o FileName(i)

\* edges is a sequence of <<i, path>>: file i holds a directive for path.
\* The k-th directive of the tree is an include when k is odd, a subninja
\* when k is even.
RECURSIVE DirectiveLines(_, _, _)
DirectiveLines(edges, i, k) ==
  IF k > Len(edges) THEN <<>>
  ELSE (IF edges[k][1] = i
          THEN (IF k % 2 = 1 THEN KW_INCLUDE ELSE KW_SUBNINJA)
               \o edges[k][2] \o <<NL>>
          ELSE <<>>)
       \o DirectiveLines(edges, i, k + 1)

MakeTree(n, edges, payload) ==
  LET idx(name) == CHOOSE i \in 1..n : FileName(i) = name
  IN  [name \in {FileName(i) : i \in 1..n} |->
         DirectiveLines(edges, idx(name), 1) \o payload[idx(name)]]

\* the files a build that produced tree leaves under the output directory
WriteTree(t, tree) ==
  LET path(name) == normpath(os_path_join(out_dir(t), name))
  IN  [p \in {path(name) : name \in DOMAIN tree} |->
         tree[CHOOSE name \in DOMAIN tree : path(name) = p]]

\* The graph family of the resolver: every tree of NumFiles files with at
\* most MaxEdges directives between them, each file's directives in any order.
FamilyPayload == [i \in 1..NumFiles |-> <<PayloadLetters[i]>>]

EdgeLists ==
  {e \in UNION {[1..k -> (1..NumFiles) \X (1..NumFiles)] : k \in 0..MaxEdges} :
     \A k \in 1..(Len(e) - 1) : e[k][1] <= e[k + 1][1]}

FamilyTree(e) ==
  MakeTree(NumFiles, [k \in 1..Len(e) |-> <<e[k][1], DirectivePath(e[k][2])>>],
           FamilyPayload)

(***************************************************************************)
(* The trees the two builds of main() choose from: graph shapes, each      *)
(* with several payload assignments.                                       *)
(***************************************************************************)
ShapeFiles == 4

GraphShapes ==
  LET D(i) == DirectivePath(i)
  IN  { <<>>,                                              \* a root alone
        <<<<1, D(2)>>, <<2, D(3)>>>>,                      \* a chain
        <<<<1, D(2)>>, <<1, D(3)>>>>,                      \* two children
        <<<<1, D(2)>>, <<1, D(3)>>, <<2, D(4)>>, <<3, D(4)>>>>, \* a diamond
        <<<<1, D(1)>>>>,                                   \* a self-include
        <<<<1, D(2)>>, <<2, D(3)>>, <<3, D(2)>>>>,         \* a mutual cycle
        <<<<1, D(2)>>, <<1, D(2)>>>>,                      \* a child named twice
        <<<<1, D(2)>>, <<2, OUT_PREFIX \o <<"m">>>>>>,     \* a missing file
        <<<<1, D(2)>>, <<2, OUT_PREFIX \o <<DOLLAR, "v">>>>>> } \* a variable

PayloadShapes ==
  LET X == <<"x">>
  IN  { [i \in 1..ShapeFiles |-> X],
        [i \in 1..ShapeFiles |-> IF i = 4 THEN <<"y">> ELSE X],
        [i \in 1..ShapeFiles |-> IF i = 3 THEN <<"x", "x">> ELSE X],
        [i \in 1..ShapeFiles |-> IF i = 2 THEN <<"x", "x">> ELSE X] }

Trees == {MakeTree(ShapeFiles, g, p) : g \in GraphShapes, p \in PayloadShapes}

\* the captured log of a build that succeeded, and of one that failed
OkLog == "ok"
FailLogs == {"error A", "error B"}

(***************************************************************************)
(* main(): the Orchestrator.                                               *)
(***************************************************************************)
CHECK == <<"CHECK1", "CHECK2">>
RESOLVE == <<"RESOLVE1", "RESOLVE2">>
DIST == <<"DIST1", "DIST2">>
HASH == <<"HASH1", "HASH2">>

Terminal == {"BUILD_FAILED", "ERROR", "MISMATCH", "MATCH"}

Init ==
  /\ product = [product |-> TARGET_PRODUCT, release |-> TARGET_RELEASE,
                variant |-> TARGET_BUILD_VARIANT]
  /\ pc = "INIT"
  /\ build = [i \in 1..2 |-> "pending"]
  /\ build_log = [i \in 1..2 |-> ""]
  /\ success = [i \in 1..2 |-> FALSE]
  /\ files = <<>>
  /\ stack = <<>>
  /\ seen = {}
  /\ opened = <<>>
  /\ ninja_files = [i \in 1..2 |-> <<>>]
  /\ dist = <<>>
  /\ fed = [i \in 1..2 |-> <<>>]
  /\ hash = [i \in 1..2 |-> <<>>]
  /\ stdout = <<>>
  /\ stderr = <<>>
  /\ exit_code = 0

\* asyncio.gather schedules both run_make_nothing coroutines
StartBuilds ==
  /\ pc = "INIT"
  /\ pc' = "BUILDING"
  /\ build' = [i \in 1..2 |-> "running"]
  /\ UNCHANGED <<product, build_log, success, files, stack, seen, opened, ninja_files,
                 dist, fed, hash, stdout, stderr, exit_code>>

\* run_make_nothing(product, out_dir i) completes: the sandboxed build has
\* written its log and, when it succeeded, its tree
BuildFinish(i) ==
  /\ pc = "BUILDING"
  /\ build[i] = "running"
  /\ \/ \E tree \in Trees :
          /\ build' = [build EXCEPT ![i] = "ok"]
          /\ build_log' = [build_log EXCEPT ![i] = OkLog]
          /\ files' = WriteTree(i, tree) @@ files
     \/ \E log \in FailLogs :
          /\ build' = [build EXCEPT ![i] = "failed"]
          /\ build_log' = [build_log EXCEPT ![i] = log]
          /\ files' = files
  /\ UNCHANGED <<product, pc, success, stack, seen, opened, ninja_files, dist, fed,
                 hash, stdout, stderr, exit_code>>

\* the await returns with the first build that finishes
gather_first_done(b) == \E i \in 1..2 : b[i] \in {"ok", "failed"}

\* the await of asyncio.gather returns: both coroutines have finished
gather_done(b) == \A i \in 1..2 : b[i] \in {"ok", "failed"}

GatherReturn ==
  /\ pc = "BUILDING"
  /\ gather_done(build)
  /\ success' = [i \in 1..2 |-> build[i] = "ok"]
  /\ pc' = CHECK[1]
  /\ UNCHANGED <<product, build, build_log, files, stack, seen, opened, ninja_files,
                 dist, fed, hash, stdout, stderr, exit_code>>

\* the flag is never acted on
not_success_ignored(flag) == FALSE

\* not success<i>
not_success(flag) == ~flag

\* the log of build 1, whichever build failed
failed_log_of_first(i) == build_log[1]

\* open(os.path.join(out_dir<i>, 'build.log'), 'r').read()
failed_log(i) == build_log[i]

\* if not success<i>: print the log, sys.exit('build failed')
CheckSuccess(i) ==
  /\ pc = CHECK[i]
  /\ IF not_success(success[i])
       THEN /\ stderr' = stderr \o <<failed_log(i), MSG_BUILD_FAILED>>
            /\ exit_code' = 1
            /\ pc' = "BUILD_FAILED"
       ELSE /\ pc' = IF i = 1 THEN CHECK[2] ELSE RESOLVE[1]
            /\ UNCHANGED <<stderr, exit_code>>
  /\ UNCHANGED <<product, build, build_log, success, files, stack, seen, opened,
                 ninja_files, dist, fed, hash, stdout>>

(***************************************************************************)
(* Transitive Resolver: transitively_included_ninja_files, one action per  *)
(* call, per iteration of its loop and per return.                         *)
(***************************************************************************)
\* the registry is never written
mark_seen_never(registry, ninja_file) == registry

\* seen[ninja_file] = True
mark_seen(registry, ninja_file) == registry \cup {ninja_file}

\* the registry is never consulted
not_in_seen_always(registry, sub_file) == TRUE

\* sub_file not in seen
not_in_seen(registry, sub_file) == sub_file \notin registry

\* the joined path is normalised
reroot_normalized(dir, sub_file) ==
  normpath(os_path_join(dir, removeprefix(sub_file, OUT_PREFIX)))

\* os.path.join(out_dir, sub_file.removeprefix('out/'))
reroot(dir, sub_file) == os_path_join(dir, removeprefix(sub_file, OUT_PREFIX))

\* the callee's results are put before the caller's
extend_in_front(results, sub_results) == sub_results \o results

\* results.extend(sub_results)
extend(results, sub_results) == results \o sub_results

\* the error is caught and reported, and main() goes on to its comparison
Raise_and_go_on(err) ==
  /\ pc' = "COMPARE"
  /\ exit_code' = exit_code
  /\ stderr' = Append(stderr, err)
  /\ stack' = <<>>

\* an exception or sys.exit leaves main(): the stack unwinds, the message
\* goes to the error stream, the process exits with code 1
Raise(err) ==
  /\ pc' = "ERROR"
  /\ exit_code' = 1
  /\ stderr' = Append(stderr, err)
  /\ stack' = <<>>

\* the body of transitively_included_ninja_files(out_dir, ninja_file, registry)
\* up to its loop, called with stk as the callers' frames and trace as the
\* files read so far
Call(ninja_file, stk, registry, trace) ==
  IF Len(stk) >= MaxDepth
    THEN Raise("RecursionError") /\ seen' = registry /\ opened' = trace
  ELSE IF ~isfile(ninja_file)
    THEN Raise("FileNotFoundError") /\ seen' = registry /\ opened' = trace
  ELSE LET scan == find_subninjas_and_includes(read(ninja_file))
       IN  /\ opened' = Append(trace, ninja_file)
           /\ seen' = mark_seen(registry, ninja_file)
           /\ IF scan.raised
                THEN Raise("UnicodeDecodeError")
              ELSE IF scan.exited
                THEN Raise(MSG_VARIABLES)
                ELSE /\ stack' = Append(stk, [ninja_file |-> ninja_file,
                                              results |-> <<ninja_file>>,
                                              sub_files |-> scan.results])
                     /\ UNCHANGED <<pc, stderr, exit_code>>

Top == stack[Len(stack)]

\* main() calls transitively_included_ninja_files(out_dir, root, {})
ResolveCall(t) ==
  /\ pc = RESOLVE[t]
  /\ stack = <<>>
  /\ Call(root_file(t), <<>>, {}, <<>>)
  /\ UNCHANGED <<product, build, build_log, success, files, ninja_files, dist, fed,
                 hash, stdout>>

\* one iteration of "for sub_file in sub_files"
ResolveNext(t) ==
  /\ pc = RESOLVE[t]
  /\ stack # <<>>
  /\ Top.sub_files # <<>>
  /\ LET sub_file == reroot(out_dir(t), Head(Top.sub_files))
         stk == [stack EXCEPT ![Len(stack)].sub_files = Tail(@)]
     IN  IF not_in_seen(seen, sub_file)
           THEN Call(sub_file, stk, seen, opened)
           ELSE /\ stack' = stk
                /\ UNCHANGED <<pc, seen, opened, stderr, exit_code>>
  /\ UNCHANGED <<product, build, build_log, success, files, ninja_files, dist, fed,
                 hash, stdout>>

\* "return results": to the calling frame, or to main()
ResolveReturn(t) ==
  /\ pc = RESOLVE[t]
  /\ stack # <<>>
  /\ Top.sub_files = <<>>
  /\ IF Len(stack) = 1
       THEN /\ ninja_files' = [ninja_files EXCEPT ![t] = Top.results]
            /\ stack' = <<>>
            /\ pc' = IF t = 1 THEN RESOLVE[2] ELSE DIST[1]
       ELSE /\ stack' = [SubSeq(stack, 1, Len(stack) - 1)
                           EXCEPT ![Len(stack) - 1].results = extend(@, Top.results)]
            /\ UNCHANGED <<pc, ninja_files>>
  /\ UNCHANGED <<product, build, build_log, success, files, seen, opened, dist, fed,
                 hash, stdout, stderr, exit_code>>

(***************************************************************************)
(* Diagnostic Packager, hash_files, and the comparison.                    *)
(***************************************************************************)
\* the name zf.write gives a member
arcname(dir, ninja_file) ==
  basename(dir) \o <<"/", "o", "u", "t", "/">> \o relpath(ninja_file, dir)

\* dist_ninja_files(out_dir, zip_name, ninja_files)
Dist(t) ==
  /\ pc = DIST[t]
  /\ dist' = (zip_name(t) :> [k \in 1..Len(ninja_files[t]) |->
                                arcname(out_dir(t), ninja_files[t][k])]) @@ dist
  /\ pc' = IF t = 1 THEN DIST[2] ELSE HASH[1]
  /\ UNCHANGED <<product, build, build_log, success, files, stack, seen, opened,
                 ninja_files, fed, hash, stdout, stderr, exit_code>>

\* hashlib.md5 is taken to be collision-free: a digest is determined by, and
\* determines, the byte stream fed to the hasher
hexdigest(stream) == stream

\* the files hash_ninja_file(out_dir, ninja_file, hasher) feeds to the hasher,
\* in order: the file, then the walk of each of its directives, nothing
\* deduplicated; depth is the number of calls above this one, and a call
\* beyond the interpreter's stack feeds nothing (the walk dies there)
RECURSIVE hash_ninja_file_feed(_, _, _)
hash_ninja_file_feed(t, ninja_file, depth) ==
  IF depth >= MaxDepth THEN <<>>
  ELSE LET sub_files == find_subninjas_and_includes(read(ninja_file)).results
       IN  <<ninja_file>>
           \o Concat([k \in 1..Len(sub_files) |->
                        hash_ninja_file_feed(t, reroot(out_dir(t), sub_files[k]),
                                             depth + 1)])

\* the list is gone through from its end
hash_files_feed_reversed(file_list) ==
  [k \in 1..Len(file_list) |-> file_list[Len(file_list) + 1 - k]]

\* the walk of hash_ninja_file from the root the list starts with
hash_files_feed_walk(file_list) ==
  hash_ninja_file_feed(IF file_list[1] = root_file(1) THEN 1 ELSE 2, file_list[1], 0)

\* the files whose bytes hash_files(files) feeds to its hasher, in order
hash_files_feed(file_list) == file_list

\* the file's name is hashed along with its bytes
update_with_name(file) == file \o read(file)

\* what hasher.update(f.read()) feeds the hasher for one file
update(file) == read(file)

\* hash_files(files): the digest of one hasher fed every file of the list
hash_files(file_list) ==
  LET feed == hash_files_feed(file_list)
  IN  hexdigest(Concat([k \in 1..Len(feed) |-> update(feed[k])]))

\* hash<t> = hash_files(ninja_files<t>)
HashFiles(t) ==
  /\ pc = HASH[t]
  /\ fed' = [fed EXCEPT ![t] = hash_files_feed(ninja_files[t])]
  /\ hash' = [hash EXCEPT ![t] = <<hash_files(ninja_files[t])>>]
  /\ pc' = IF t = 1 THEN HASH[2] ELSE "COMPARE"
  /\ UNCHANGED <<product, build, build_log, success, files, stack, seen, opened,
                 ninja_files, dist, stdout, stderr, exit_code>>

\* hash1 != hash2
differ(h1, h2) == h1 # h2

\* if hash1 != hash2: sys.exit(...), else print("Success, ...")
Compare ==
  /\ pc = "COMPARE"
  /\ IF differ(hash[1], hash[2])
       THEN /\ stderr' = Append(stderr, MSG_NOT_DETERMINISTIC)
            /\ exit_code' = 1
            /\ pc' = "MISMATCH"
            /\ UNCHANGED stdout
       ELSE /\ stdout' = Append(stdout, MSG_SUCCESS)
            /\ exit_code' = 0
            /\ pc' = "MATCH"
            /\ UNCHANGED stderr
  /\ UNCHANGED <<product, build, build_log, success, files, stack, seen, opened,
                 ninja_files, dist, fed, hash>>

Next ==
  \/ StartBuilds
  \/ \E i \in 1..2 : BuildFinish(i)
  \/ GatherReturn
  \/ \E i \in 1..2 : CheckSuccess(i)
  \/ \E t \in 1..2 : ResolveCall(t)
  \/ \E t \in 1..2 : ResolveNext(t)
  \/ \E t \in 1..2 : ResolveReturn(t)
  \/ \E t \in 1..2 : Dist(t)
  \/ \E t \in 1..2 : HashFiles(t)
  \/ Compare

Spec == Init /\ [][Next]_vars

(***************************************************************************)
(* The resolver alone: main() at its first call of                         *)
(* transitively_included_ninja_files, build 1 having left any tree of the  *)
(* graph family or any of the trees main() is run on.                      *)
(***************************************************************************)
\* trees with a directive the scan stops at, in the root after a directive it
\* accepts, two calls below the root, and in a child reached after its
\* sibling's subtree was resolved
VariableShapes ==
  LET D(i) == DirectivePath(i)
      V == OUT_PREFIX \o <<DOLLAR, "v">>
  IN  { <<<<1, D(2)>>, <<1, V>>>>,
        <<<<1, D(2)>>, <<2, D(3)>>, <<3, D(4)>>, <<3, V>>>>,
        <<<<1, D(2)>>, <<1, D(3)>>, <<2, D(4)>>, <<3, D(2)>>, <<3, V>>>> }

VariableTrees ==
  {MakeTree(ShapeFiles, g, [i \in 1..ShapeFiles |-> <<"x">>]) : g \in VariableShapes}

\* trees in which two directives spell the path of one file differently:
\* out/a and out/./a in the root; out/d/../a in d/c and out/a in the root;
\* out/./a in a itself
SpellingTrees ==
  LET A == <<"a">>
      C == <<"d", "/", "c">>
      X == <<"x">>
      Line(k, path) == k \o OUT_PREFIX \o path \o <<NL>>
  IN  { (ROOT_NAME :> (Line(KW_INCLUDE, A)
                        \o Line(KW_SUBNINJA, <<".", "/">> \o A) \o X))
          @@ (A :> X),
        (ROOT_NAME :> (Line(KW_SUBNINJA, C) \o Line(KW_INCLUDE, A) \o X))
          @@ (C :> (Line(KW_INCLUDE, <<"d", "/", ".", ".", "/">> \o A) \o X))
          @@ (A :> X),
        (ROOT_NAME :> (Line(KW_INCLUDE, A) \o X))
          @@ (A :> (Line(KW_INCLUDE, <<".", "/">> \o A) \o X)) }

WalkTrees ==
  {FamilyTree(e) : e \in EdgeLists} \cup Trees \cup VariableTrees \cup SpellingTrees

InitWalk ==
  /\ product = [product |-> TARGET_PRODUCT, release |-> TARGET_RELEASE,
                variant |-> TARGET_BUILD_VARIANT]
  /\ pc = RESOLVE[1]
  /\ build = [i \in 1..2 |-> "ok"]
  /\ build_log = [i \in 1..2 |-> OkLog]
  /\ success = [i \in 1..2 |-> TRUE]
  /\ \E tree \in WalkTrees : files = WriteTree(1, tree)
  /\ stack = <<>>
  /\ seen = {}
  /\ opened = <<>>
  /\ ninja_files = [i \in 1..2 |-> <<>>]
  /\ dist = <<>>
  /\ fed = [i \in 1..2 |-> <<>>]
  /\ hash = [i \in 1..2 |-> <<>>]
  /\ stdout = <<>>
  /\ stderr = <<>>
  /\ exit_code = 0

NextWalk == ResolveCall(1) \/ ResolveNext(1) \/ ResolveReturn(1)

SpecWalk == InitWalk /\ [][NextWalk]_vars

\* The interpreter keeps running the program: a step of the walk that can be
\* taken is taken.  This is weak fairness of NextWalk, written with what
\* ENABLED <<NextWalk>>_vars amounts to: while pc = RESOLVE[1] one of the
\* three steps can be taken (the call when the stack is empty, an iteration
\* or the return otherwise) and changes the state; elsewhere none can.
WalkFairness == []<>(pc # RESOLVE[1]) \/ []<><<NextWalk>>_vars

FairWalk == SpecWalk /\ WalkFairness

(***************************************************************************)
(* The directive graph of a tree, read off the file system.                *)
(***************************************************************************)
NoDuplicates(q) == \A i, j \in 1..Len(q) : q[i] = q[j] => i = j

Elements(q) == {q[k] : k \in 1..Len(q)}

Last(q) == q[Len(q)]

\* the paths the directives of an existing file name, re-rooted under the
\* output directory of tree t, in directive order
Targets(t, f) ==
  LET refs == find_subninjas_and_includes(read(f)).results
  IN  [k \in 1..Len(refs) |->
         os_path_join(out_dir(t), removeprefix(refs[k], OUT_PREFIX))]

\* the paths reachable from the paths of S through directives of existing files
RECURSIVE Closure(_, _)
Closure(t, S) ==
  LET more == S \cup UNION {Elements(Targets(t, f)) : f \in {g \in S : isfile(g)}}
  IN  IF more = S THEN S ELSE Closure(t, more)

Reachable(t) == Closure(t, {root_file(t)})

\* every file the graph of tree t reaches exists, and its scan returns
WellFormed(t) ==
  \A f \in Reachable(t) :
    /\ isfile(f)
    /\ ~find_subninjas_and_includes(read(f)).exited
    /\ ~find_subninjas_and_includes(read(f)).raised

\* depth-first pre-order of first discovery, as a function of the graph
RECURSIVE DfsVisit(_, _, _)
RECURSIVE DfsChildren(_, _, _)
DfsVisit(t, f, visited) ==
  LET r == DfsChildren(t, Targets(t, f), visited \cup {f})
  IN  [order |-> <<f>> \o r.order, visited |-> r.visited]

DfsChildren(t, cs, visited) ==
  IF cs = <<>> THEN [order |-> <<>>, visited |-> visited]
  ELSE IF Head(cs) \in visited THEN DfsChildren(t, Tail(cs), visited)
  ELSE LET a == DfsVisit(t, Head(cs), visited)
           b == DfsChildren(t, Tail(cs), a.visited)
       IN  [order |-> a.order \o b.order, visited |-> b.visited]

Preorder(t) == DfsVisit(t, root_file(t), {}).order

\* the number of directives in the files of a list
RECURSIVE DirectiveCount(_, _)
DirectiveCount(t, q) ==
  IF q = <<>> THEN 0 ELSE Len(Targets(t, Head(q))) + DirectiveCount(t, Tail(q))

\* the resolution of tree t has returned its manifest to main()
Returned(t) == ninja_files[t] # <<>>

(***************************************************************************)
(* C1: at every step of the walk of transitively_included_ninja_files, no *)
(* path has been read and scanned twice, no path occurs twice in the       *)
(* results the active calls hold between them, and no path occurs twice in *)
(* a returned manifest; this on every graph, with diamonds, self-includes, *)
(* cycles and children named several times.                                *)
(***************************************************************************)
C1_NoPathTwice ==
  /\ NoDuplicates(opened)
  /\ NoDuplicates(Concat([k \in 1..Len(stack) |-> stack[k].results]))
  /\ \A t \in 1..2 : NoDuplicates(ninja_files[t])

\* the walk has returned on a graph with more directives than a tree has:
\* some file is named twice, or a file on a cycle is named again
C1_Witness ==
  /\ Returned(1)
  /\ Len(ninja_files[1]) >= 3
  /\ DirectiveCount(1, ninja_files[1]) >= Len(ninja_files[1])

(***************************************************************************)
(* C2: when every referenced file exists, the manifest returned is the     *)
(* set of files reachable from the root through directives, each once, in  *)
(* depth-first pre-order of first discovery, the root first.               *)
(***************************************************************************)
C2_ManifestIsReachablePreorder ==
  (pc # RESOLVE[1] /\ WellFormed(1)) =>
    /\ Returned(1)
    /\ ninja_files[1][1] = root_file(1)
    /\ Elements(ninja_files[1]) = Reachable(1)
    /\ ninja_files[1] = Preorder(1)

\* a manifest of three files returned for a tree that also holds a file the
\* root does not reach
C2_Witness ==
  /\ Returned(1)
  /\ Len(ninja_files[1]) >= 3
  /\ \E p \in DOMAIN files : p \notin Elements(ninja_files[1])

(***************************************************************************)
(* C3: the walk terminates on every finite graph, self-includes and        *)
(* mutual cycles included: it returns its manifest, or, when a referenced  *)
(* file is missing or a directive holds '$', ends with that error; it      *)
(* never runs out of stack.                                                *)
(***************************************************************************)
WalkEnded ==
  \/ Returned(1)
  \/ /\ ~WellFormed(1)
     /\ pc = "ERROR"
     /\ Last(stderr) \in {"FileNotFoundError", "UnicodeDecodeError", MSG_VARIABLES}

C3_WalkTerminates == <>WalkEnded

\* the walk has returned on a graph with a cycle: a file of the manifest is
\* reachable from its own directives
C3_Witness ==
  /\ Returned(1)
  /\ \E f \in Elements(ninja_files[1]) : f \in Closure(1, Elements(Targets(1, f)))

(***************************************************************************)
(* The Orchestrator's later states, and what two trees have in common.     *)
(***************************************************************************)
Count(q, x) == Cardinality({k \in 1..Len(q) : q[k] = x})

\* hash_files has returned for tree t
Hashed(t) == hash[t] # <<>>

BothZips == {zip_name(1), zip_name(2)}

\* no cycle of directives is reachable from the root of tree t
Acyclic(t) ==
  \A f \in Reachable(t) : f \notin Closure(t, Elements(Targets(t, f)))

\* the files of the manifest of tree t that hold a directive for f
Parents(t, f) ==
  {g \in Elements(ninja_files[t]) : f \in Elements(Targets(t, g))}

\* the digest hash_ninja_file accumulates from the root of tree t
hash_ninja_file_digest(t) ==
  LET feed == hash_ninja_file_feed(t, root_file(t), 0)
  IN  hexdigest(Concat([k \in 1..Len(feed) |-> read(feed[k])]))

\* the files the root of tree t reaches, each with its path relative to the
\* output directory and its bytes
IncludedFiles(t) ==
  {<<relpath(f, out_dir(t)), read(f)>> : f \in Reachable(t)}

\* the manifest of tree t, each path relative to the output directory
RelativeManifest(t) ==
  [k \in 1..Len(ninja_files[t]) |-> relpath(ninja_files[t][k], out_dir(t))]

C5_MatchImpliesIdenticalGraphs ==
  pc = "MATCH" =>
    /\ RelativeManifest(1) = RelativeManifest(2)
    /\ \A k \in 1..Len(ninja_files[1]) :
         read(ninja_files[1][k]) = read(ninja_files[2][k])

(***************************************************************************)
(* C6: when both builds succeed and the two trees reach the same files     *)
(* (the same paths relative to the output directory, the same bytes, every *)
(* referenced file present), a run that has ended has ended in MATCH: the  *)
(* digests are equal, success is printed, the exit code is 0 and both      *)
(* archives are written.                                                   *)
(***************************************************************************)
IdenticalGraphs ==
  /\ success[1] /\ success[2]
  /\ WellFormed(1) /\ WellFormed(2)
  /\ IncludedFiles(1) = IncludedFiles(2)

C6_IdenticalTreesMatch ==
  (pc \in Terminal /\ IdenticalGraphs) =>
    /\ pc = "MATCH"
    /\ hash[1] = hash[2]
    /\ exit_code = 0
    /\ stdout = <<MSG_SUCCESS>>
    /\ stderr = <<>>
    /\ BothZips \subseteq DOMAIN dist

\* a run on two identical trees of three or more files has ended
C6_Witness ==
  /\ pc \in Terminal
  /\ IdenticalGraphs
  /\ Len(ninja_files[1]) >= 3

(***************************************************************************)
(* C7: while a build has not completed, main() is still in BUILDING (or    *)
(* before it): no success flag is set, nothing is resolved, packaged,      *)
(* hashed or printed, whatever the other build has done.                   *)
(***************************************************************************)
C7_JoinBarrier ==
  (\E i \in 1..2 : build[i] \in {"pending", "running"}) =>
    /\ pc \in {"INIT", "BUILDING"}
    /\ success = [i \in 1..2 |-> FALSE]
    /\ stack = <<>> /\ opened = <<>> /\ seen = {}
    /\ ninja_files = [i \in 1..2 |-> <<>>]
    /\ dist = <<>>
    /\ hash = [i \in 1..2 |-> <<>>]
    /\ stdout = <<>> /\ stderr = <<>>

\* one build has completed, having failed, while the other still runs
C7_Witness ==
  \E i \in 1..2 :
    /\ build[i] = "failed"
    /\ build[3 - i] = "running"
    /\ pc = "BUILDING"

(***************************************************************************)
(* C8: once gather has returned with a build failed, main() only checks    *)
(* the flags and ends in BUILD_FAILED with exit code 1: nothing is         *)
(* resolved, no archive is written, no digest is computed, no build is     *)
(* run again, success is never printed; and BUILD_FAILED is reached.       *)
(***************************************************************************)
BuildFailure ==
  /\ gather_done(build)
  /\ \E i \in 1..2 : build[i] = "failed"

C8_Safety ==
  (pc \notin {"INIT", "BUILDING"} /\ \E i \in 1..2 : ~success[i]) =>
    /\ pc \in {CHECK[1], CHECK[2], "BUILD_FAILED"}
    /\ pc = "BUILD_FAILED" => exit_code = 1
    /\ gather_done(build)
    /\ stack = <<>> /\ opened = <<>>
    /\ ninja_files = [i \in 1..2 |-> <<>>]
    /\ dist = <<>>
    /\ hash = [i \in 1..2 |-> <<>>]
    /\ stdout = <<>>

C8_BuildFailureIsFatal ==
  /\ []C8_Safety
  /\ [][build_log' # build_log => pc = "BUILDING"]_vars
  /\ BuildFailure ~> (pc = "BUILD_FAILED")

\* the run has ended in BUILD_FAILED with only the second build failed
C8_Witness ==
  /\ pc = "BUILD_FAILED"
  /\ success[1] /\ ~success[2]

(***************************************************************************)
(* C9, as claimed: when the run has ended, the log of every build that     *)
(* failed has been written to the error stream.                            *)
(***************************************************************************)
C9_EveryFailedLogIsDumped ==
  pc \in Terminal =>
    \A i \in 1..2 : build[i] = "failed" => build_log[i] \in Elements(stderr)

(***************************************************************************)
(* C9, amended: when the run ends in BUILD_FAILED, the log of the first    *)
(* build that failed (build 1 if it failed, build 2 otherwise) has been    *)
(* written to the error stream, followed by 'build failed', and nothing    *)
(* else: when both builds fail, the log of build 2 is not written.         *)
(***************************************************************************)
FirstFailed == IF build[1] = "failed" THEN 1 ELSE 2

C9_FirstFailedLogIsDumped ==
  /\ pc = "BUILD_FAILED" => stderr = <<build_log[FirstFailed], MSG_BUILD_FAILED>>
  /\ (pc \in Terminal /\ \E i \in 1..2 : build[i] = "failed") => pc = "BUILD_FAILED"

\* the run has ended with both builds failed, their logs different
C9_Witness ==
  /\ pc = "BUILD_FAILED"
  /\ build[1] = "failed" /\ build[2] = "failed"
  /\ build_log[1] # build_log[2]

FairSpec ==
  /\ Spec
  /\ WF_vars(GatherReturn)
  /\ \A i \in 1..2 : WF_vars(CheckSuccess(i))

(***************************************************************************)
(* The directives of a file, read line by line.                            *)
(***************************************************************************)
\* the lines of contents: the bytes between consecutive newlines
RECURSIVE SplitLines(_)
SplitLines(contents) ==
  LET j == find(contents, NL, 0)
  IN  IF j < 0 THEN <<contents>>
      ELSE <<Slice(contents, 0, j)>> \o SplitLines(Slice(contents, j + 1, Len(contents)))

IsDirectiveLine(line) ==
  startswith(line, KW_INCLUDE) \/ startswith(line, KW_SUBNINJA)

\* what follows the keyword and its space, less one trailing carriage return
LinePath(line) ==
  LET rest == IF startswith(line, KW_INCLUDE)
                THEN SubSeq(line, Len(KW_INCLUDE) + 1, Len(line))
                ELSE SubSeq(line, Len(KW_SUBNINJA) + 1, Len(line))
  IN  IF rest # <<>> /\ Last(rest) = CR THEN SubSeq(rest, 1, Len(rest) - 1) ELSE rest

\* the paths of the directive lines of contents, in order
LinePaths(contents) ==
  LET directives == SelectSeq(SplitLines(contents), IsDirectiveLine)
  IN  [k \in 1..Len(directives) |-> LinePath(directives[k])]

\* a directive line of contents names a path with '$'
HoldsVariable(contents) ==
  \E k \in 1..Len(LinePaths(contents)) : Contains(LinePaths(contents)[k], DOLLAR)

(***************************************************************************)
(* C11: once a file with a '$' in a directive path has been scanned, at    *)
(* whatever depth of the walk and whatever directives precede the          *)
(* offending one, the run has ended with an error: the scan returned no    *)
(* list (no call is left on the stack, nothing the file names was opened   *)
(* after it) and no manifest, partial or not, was returned.                *)
(***************************************************************************)
C11_VariableIsFatal ==
  \A k \in 1..Len(opened) :
    HoldsVariable(read(opened[k])) =>
      /\ pc = "ERROR"
      /\ exit_code = 1
      /\ Last(stderr) \in {MSG_VARIABLES, "UnicodeDecodeError"}
      /\ k = Len(opened)
      /\ stack = <<>>
      /\ ~Returned(1)
      /\ dist = <<>> /\ stdout = <<>>

\* the walk ended at a file two or more calls in, whose first directive is
\* one the scan accepts and whose later directive holds '$'
C11_Witness ==
  /\ pc = "ERROR"
  /\ Len(opened) >= 3
  /\ Last(stderr) = MSG_VARIABLES
  /\ LET paths == LinePaths(read(Last(opened)))
     IN  /\ Len(paths) >= 2
         /\ ~Contains(paths[1], DOLLAR)
         /\ Contains(paths[Len(paths)], DOLLAR)

(***************************************************************************)
(* Product: the validated TARGET_PRODUCT / TARGET_RELEASE /                *)
(* TARGET_BUILD_VARIANT triple, constructed on its own for any triple of   *)
(* strings.                                                                *)
(***************************************************************************)
\* [a-zA-Z_]
IdentStart ==
  {"a","b","c","d","e","f","g","h","i","j","k","l","m","n","o","p","q","r","s",
   "t","u","v","w","x","y","z","A","B","C","D","E","F","G","H","I","J","K","L",
   "M","N","O","P","Q","R","S","T","U","V","W","X","Y","Z","_"}

\* [a-zA-Z0-9_]
IdentChar == IdentStart \cup {"0","1","2","3","4","5","6","7","8","9"}

\* [a-zA-Z_][a-zA-Z0-9_]* matched at offset pos, greedily: the offset the
\* match ends at, or -1
identifier_end(s, pos) ==
  IF pos >= Len(s) \/ s[pos + 1] \notin IdentStart THEN -1
  ELSE LET stops == {j \in (pos + 1)..Len(s) : j = Len(s) \/ s[j + 1] \notin IdentChar}
       IN  CHOOSE j \in stops : \A k \in stops : j <= k

\* -(user|userdebug|eng) matched at offset pos, the alternatives tried in order
variant_end(s, pos) ==
  IF ~startswith_at(s, <<"-">>, pos) THEN -1
  ELSE IF startswith_at(s, <<"u","s","e","r">>, pos + 1) THEN pos + 5
  ELSE IF startswith_at(s, <<"u","s","e","r","d","e","b","u","g">>, pos + 1) THEN pos + 10
  ELSE IF startswith_at(s, <<"e","n","g">>, pos + 1) THEN pos + 4
  ELSE -1

\* _PRODUCT_REGEX.match(s): the match is looked for at offset 0 only and
\* may end anywhere; the offset it ends at, or -1 when there is none (None).
\* After the first identifier the optional group is tried with its inner
\* optional -identifier, then without it, then skipped.
PRODUCT_REGEX_match(s) ==
  LET e1 == identifier_end(s, 0)
      e2 == IF e1 >= 0 /\ startswith_at(s, <<"-">>, e1)
              THEN identifier_end(s, e1 + 1) ELSE -1
      with_release == IF e2 >= 0 THEN variant_end(s, e2) ELSE -1
      without_release == IF e1 >= 0 THEN variant_end(s, e1) ELSE -1
  IN  IF e1 < 0 THEN -1
      ELSE IF with_release >= 0 THEN with_release
      ELSE IF without_release >= 0 THEN without_release
      ELSE e1

\* Product.__str__
Product_str(self) ==
  self.product \o <<"-">> \o self.release \o <<"-">> \o self.variant

\* the strings a Product is constructed from
ProductInputs ==
  { TARGET_PRODUCT, <<"a","o","s","p">>, <<"_","p","1">>, <<"a",".","b">>,
    <<"1","p">>, <<>> }
ReleaseInputs ==
  { TARGET_RELEASE, <<"t","r","u","n","k">>, <<"9","r">>, <<"r","-","x">>, <<>> }
VariantInputs ==
  { <<"u","s","e","r">>, TARGET_BUILD_VARIANT, <<"e","n","g">>,
    <<"b","o","g","u","s">>, <<"u","s","e","r","s">>, <<>> }

\* Product(product, release, variant): the dataclass's __init__ sets the
\* fields and runs __post_init__, which raises ValueError when the regex
\* does not match str(self); no instance is bound then
Product_init(p, r, v) ==
  /\ pc = "INIT"
  /\ product = <<>>
  /\ LET self == [product |-> p, release |-> r, variant |-> v]
     IN  IF PRODUCT_REGEX_match(Product_str(self)) < 0
           THEN Raise("ValueError") /\ product' = product
           ELSE product' = self /\ UNCHANGED <<pc, exit_code, stderr, stack>>
  /\ UNCHANGED <<build, build_log, success, files, seen, opened, ninja_files,
                 dist, fed, hash, stdout>>

InitProduct ==
  /\ product = <<>>
  /\ pc = "INIT"
  /\ build = [i \in 1..2 |-> "pending"]
  /\ build_log = [i \in 1..2 |-> ""]
  /\ success = [i \in 1..2 |-> FALSE]
  /\ files = <<>>
  /\ stack = <<>>
  /\ seen = {}
  /\ opened = <<>>
  /\ ninja_files = [i \in 1..2 |-> <<>>]
  /\ dist = <<>>
  /\ fed = [i \in 1..2 |-> <<>>]
  /\ hash = [i \in 1..2 |-> <<>>]
  /\ stdout = <<>>
  /\ stderr = <<>>
  /\ exit_code = 0

NextProduct ==
  \E p \in ProductInputs, r \in ReleaseInputs, v \in VariantInputs :
    Product_init(p, r, v)

SpecProduct == InitProduct /\ [][NextProduct]_vars

\* s is an identifier of the grammar, from its first to its last character
IsIdentifier(s) ==
  /\ s # <<>>
  /\ s[1] \in IdentStart
  /\ \A k \in 1..Len(s) : s[k] \in IdentChar

Variants == { <<"u","s","e","r">>, <<"u","s","e","r","d","e","b","u","g">>, <<"e","n","g">> }

(***************************************************************************)
(* C12: a Product is constructed only for a triple whose product and       *)
(* release are identifiers and whose variant is user, userdebug or eng;    *)
(* for every other triple construction fails and no instance exists.       *)
(***************************************************************************)
C12_OnlyValidTriplesConstruct ==
  product # <<>> =>
    /\ IsIdentifier(product.product)
    /\ IsIdentifier(product.release)
    /\ product.variant \in Variants

(***************************************************************************)
(* The scanner alone: the first call of transitively_included_ninja_files  *)
(* on a root file of any content put together from a few byte strings,     *)
(* in an output directory that holds nothing else.                         *)
(***************************************************************************)
\* byte strings a content is put together from
MaxTokens == 4

ScanTokens ==
  { KW_INCLUDE, KW_SUBNINJA, <<"i","n","c","l","u","d","e">>, <<NL>>, <<CR>>,
    <<"a">>, <<DOLLAR>>, <<BYTE_FF>> }

ScanContents ==
  {Concat(ts) : ts \in UNION {[1..n -> ScanTokens] : n \in 0..MaxTokens}}

InitScan ==
  /\ product = [product |-> TARGET_PRODUCT, release |-> TARGET_RELEASE,
                variant |-> TARGET_BUILD_VARIANT]
  /\ pc = RESOLVE[1]
  /\ build = [i \in 1..2 |-> "ok"]
  /\ build_log = [i \in 1..2 |-> OkLog]
  /\ success = [i \in 1..2 |-> TRUE]
  /\ \E contents \in ScanContents :
       files = (normpath(root_file(1)) :> contents)
  /\ stack = <<>>
  /\ seen = {}
  /\ opened = <<>>
  /\ ninja_files = [i \in 1..2 |-> <<>>]
  /\ dist = <<>>
  /\ fed = [i \in 1..2 |-> <<>>]
  /\ hash = [i \in 1..2 |-> <<>>]
  /\ stdout = <<>>
  /\ stderr = <<>>
  /\ exit_code = 0

SpecScan == InitScan /\ [][NextWalk]_vars

\* the scan of the file the walk opened last did not return
ScanFailed ==
  pc = "ERROR" /\ Last(stderr) \in {MSG_VARIABLES, "UnicodeDecodeError"}

\* a directive line of contents names a path that is not UTF-8
HoldsUndecodable(contents) ==
  \E k \in 1..Len(LinePaths(contents)) : Contains(LinePaths(contents)[k], BYTE_FF)

\* the list the scan of the root returned is the list paths: the root's
\* frame holds it, main() got the manifest of the root alone when it is
\* empty, and the walk went on to open its first path when it is not
ScanReturned(paths) ==
  /\ ~ScanFailed
  /\ stack # <<>> => (Len(stack) = 1 /\ Top.sub_files = paths)
  /\ Returned(1) => paths = <<>>
  /\ pc = "ERROR" => paths # <<>>

(***************************************************************************)
(* C13, as claimed: for every content without '$' the scan returns, in     *)
(* order, the path of every line that begins with 'include ' or            *)
(* 'subninja ' and nothing else, each path running to the end of its line  *)
(* less one trailing carriage return.                                      *)
(***************************************************************************)
C13_EveryContentWithoutVariable ==
  (opened # <<>> /\ ~Contains(read(root_file(1)), DOLLAR)) =>
    ScanReturned(LinePaths(read(root_file(1))))

(***************************************************************************)
(* C13, amended: for every content without '$' whose directive paths are   *)
(* UTF-8, the scan returns, in order, the decoded path of every line that  *)
(* begins with 'include ' or 'subninja ' and nothing else, each path       *)
(* running to the end of its line less one trailing carriage return; when  *)
(* a directive path is not UTF-8 the scan raises UnicodeDecodeError and    *)
(* returns nothing.  The content is not modified.                          *)
(***************************************************************************)
C13_ScanReturnsDirectiveLines ==
  /\ [](opened # <<>> =>
         LET contents == read(root_file(1))
         IN  /\ (~Contains(contents, DOLLAR) /\ ~HoldsUndecodable(contents)) =>
                  ScanReturned(LinePaths(contents))
             /\ (~Contains(contents, DOLLAR) /\ HoldsUndecodable(contents)) =>
                  (pc = "ERROR" /\ Last(stderr) = "UnicodeDecodeError"
                   /\ stack = <<>> /\ ~Returned(1)))
  /\ [][files' = files]_vars

\* the scan returned a path from a content with a carriage return and with
\* a line that is not a directive
C13_Witness ==
  /\ Len(stack) = 1
  /\ Len(Top.sub_files) >= 1
  /\ Len(opened) = 1
  /\ Contains(read(root_file(1)), CR)
  /\ Len(SplitLines(read(root_file(1)))) > Len(Top.sub_files)

(***************************************************************************)
(* Determinism Hasher: hash_ninja_file, one action per call, per iteration *)
(* of its loop and per return.  main() does not call it; it is run here on *)
(* its own, from the root of tree 1 with a fresh hasher, next to a run of  *)
(* the resolver on the same tree.  hash[1] holds the hasher: the digest of *)
(* the bytes fed so far.                                                   *)
(***************************************************************************)
\* each file is hashed by a hasher of its own
hasher_update_fresh(stream, contents) == contents

\* hasher.update(contents): the bytes are added to those fed before
hasher_update(stream, contents) == stream \o contents

\* a file that was fed before is not walked again
hash_follows_unfed(fed_files, sub_file) ==
  \A k \in 1..Len(fed_files) : fed_files[k] # sub_file

\* "for sub_file in sub_files: hash_ninja_file(...)": every sub_file is
\* walked, whatever was walked before
hash_follows(fed_files, sub_file) == TRUE

\* the body of hash_ninja_file(out_dir, ninja_file, hasher) up to its loop,
\* called with stk as the callers' frames
HashCall(ninja_file, stk) ==
  IF Len(stk) >= MaxDepth
    THEN Raise("RecursionError") /\ UNCHANGED <<opened, fed, hash>>
  ELSE IF ~isfile(ninja_file)
    THEN Raise("FileNotFoundError") /\ UNCHANGED <<opened, fed, hash>>
  ELSE LET contents == read(ninja_file)
           scan == find_subninjas_and_includes(contents)
       IN  /\ opened' = Append(opened, ninja_file)
           /\ IF scan.raised
                THEN Raise("UnicodeDecodeError") /\ UNCHANGED <<fed, hash>>
              ELSE IF scan.exited
                THEN Raise(MSG_VARIABLES) /\ UNCHANGED <<fed, hash>>
                ELSE /\ fed' = [fed EXCEPT ![1] = Append(@, ninja_file)]
                     /\ hash' = [hash EXCEPT ![1] =
                                   <<hexdigest(hasher_update(hash[1][1], contents))>>]
                     /\ stack' = Append(stk, [ninja_file |-> ninja_file,
                                              sub_files |-> scan.results])
                     /\ UNCHANGED <<pc, stderr, exit_code>>

\* hash_ninja_file(out_dir, root, hasher) is called
HashNinjaFileCall ==
  /\ pc = "HASHING"
  /\ stack = <<>>
  /\ HashCall(root_file(1), <<>>)
  /\ UNCHANGED <<product, build, build_log, success, files, seen, ninja_files,
                 dist, stdout>>

\* one iteration of "for sub_file in sub_files"
HashNinjaFileNext ==
  /\ pc = "HASHING"
  /\ stack # <<>>
  /\ Top.sub_files # <<>>
  /\ LET sub_file == reroot(out_dir(1), Head(Top.sub_files))
         stk == [stack EXCEPT ![Len(stack)].sub_files = Tail(@)]
     IN  IF hash_follows(fed[1], sub_file)
           THEN HashCall(sub_file, stk)
           ELSE /\ stack' = stk
                /\ UNCHANGED <<pc, opened, fed, hash, stderr, exit_code>>
  /\ UNCHANGED <<product, build, build_log, success, files, seen, ninja_files,
                 dist, stdout>>

\* the loop is over: the call returns to the calling frame, or to the
\* caller of the walk
HashNinjaFileReturn ==
  /\ pc = "HASHING"
  /\ stack # <<>>
  /\ Top.sub_files = <<>>
  /\ stack' = SubSeq(stack, 1, Len(stack) - 1)
  /\ pc' = IF Len(stack) = 1 THEN "HASHED" ELSE pc
  /\ UNCHANGED <<product, build, build_log, success, files, seen, opened,
                 ninja_files, dist, fed, hash, stdout, stderr, exit_code>>

\* one of the two walks is about to be run on a tree build 1 has left
InitHasher ==
  /\ product = [product |-> TARGET_PRODUCT, release |-> TARGET_RELEASE,
                variant |-> TARGET_BUILD_VARIANT]
  /\ build = [i \in 1..2 |-> "ok"]
  /\ build_log = [i \in 1..2 |-> OkLog]
  /\ success = [i \in 1..2 |-> TRUE]
  /\ \E tree \in WalkTrees : files = WriteTree(1, tree)
  /\ \/ pc = RESOLVE[1] /\ hash = [i \in 1..2 |-> <<>>]
     \/ pc = "HASHING" /\ hash = [i \in 1..2 |-> IF i = 1 THEN <<hexdigest(<<>>)>> ELSE <<>>]
  /\ stack = <<>>
  /\ seen = {}
  /\ opened = <<>>
  /\ ninja_files = [i \in 1..2 |-> <<>>]
  /\ dist = <<>>
  /\ fed = [i \in 1..2 |-> <<>>]
  /\ stdout = <<>>
  /\ stderr = <<>>
  /\ exit_code = 0

NextHasher ==
  \/ ResolveCall(1)
  \/ ResolveNext(1)
  \/ ResolveReturn(1)
  \/ HashNinjaFileCall
  \/ HashNinjaFileNext
  \/ HashNinjaFileReturn

SpecHasher == InitHasher /\ [][NextHasher]_vars

\* The interpreter keeps running the walk it was started on: a step that
\* can be taken is taken.  This is weak fairness of NextHasher, written
\* with what ENABLED <<NextHasher>>_vars amounts to: a step can be taken,
\* and changes the state, exactly while pc is RESOLVE[1] or "HASHING".
HasherFairness ==
  []<>(pc \notin {RESOLVE[1], "HASHING"}) \/ []<><<NextHasher>>_vars

FairHasher == SpecHasher /\ HasherFairness

\* the number of inclusion paths from file f to file g in the graph of tree
\* t, which has no cycle: a directive named twice counts twice
RECURSIVE PathCount(_, _, _)
PathCount(t, f, g) ==
  LET cs == Targets(t, f)
      below[k \in 1..(Len(cs) + 1)] ==
        IF k > Len(cs) THEN 0 ELSE PathCount(t, cs[k], g) + below[k + 1]
  IN  (IF f = g THEN 1 ELSE 0) + below[1]

\* a file the root of tree t reaches is reachable from its own directives
CyclicGraph(t) ==
  \E f \in Reachable(t) :
    isfile(f) /\ f \in Closure(t, Elements(Targets(t, f)))

\* the walk of hash_ninja_file was started and is over
HasherEnded == hash[1] # <<>> /\ pc \in {"HASHED", "ERROR"}

(***************************************************************************)
(* C14: on an acyclic graph with every file present, hash_ninja_file       *)
(* returns having fed the hasher the files of the depth-first walk that    *)
(* follows every directive, nothing deduplicated, each file before the     *)
(* walks of its directives and these in directive order: a file is fed as  *)
(* many times as there are inclusion paths to it from the root, the digest *)
(* is that of the bytes of the files fed, in order, and for a root with no *)
(* directive it is the digest of the root's bytes alone.                   *)
(***************************************************************************)
C14_HasherFeedsEveryPath ==
  (HasherEnded /\ WellFormed(1) /\ Acyclic(1)) =>
    /\ pc = "HASHED"
    /\ fed[1] = hash_ninja_file_feed(1, root_file(1), 0)
    /\ \A f \in Reachable(1) : Count(fed[1], f) = PathCount(1, root_file(1), f)
    /\ Elements(fed[1]) = Reachable(1)
    /\ hash[1] = <<hexdigest(Concat([k \in 1..Len(fed[1]) |-> read(fed[1][k])]))>>
    /\ Targets(1, root_file(1)) = <<>> => hash[1] = <<hexdigest(read(root_file(1)))>>

\* the hasher returned on a graph where two inclusion paths lead to a file,
\* through two different files
C14_Witness ==
  /\ pc = "HASHED"
  /\ \E f \in Elements(fed[1]) :
       /\ Count(fed[1], f) = 2
       /\ Cardinality({g \in Elements(fed[1]) : f \in Elements(Targets(1, g))}) = 2

(***************************************************************************)
(* C15: on a graph with a directive cycle reachable from the root,         *)
(* hash_ninja_file never returns: nothing stops the walk but the           *)
(* interpreter's stack giving out (or a file it cannot read or scan); on   *)
(* the same graph, its files present, transitively_included_ninja_files    *)
(* returns its manifest.                                                   *)
(***************************************************************************)
C15_Safety ==
  CyclicGraph(1) =>
    /\ pc # "HASHED"
    /\ WellFormed(1) =>
         /\ pc = "ERROR" => (hash[1] # <<>> /\ Last(stderr) = "RecursionError")
         /\ pc \notin {RESOLVE[1], "HASHING", "ERROR"} => Returned(1)

C15_HasherDoesNotReturnOnCycle ==
  /\ []C15_Safety
  /\ (CyclicGraph(1) /\ WellFormed(1) /\ pc = "HASHING") ~> (pc = "ERROR")
  /\ (CyclicGraph(1) /\ WellFormed(1) /\ pc = RESOLVE[1]) ~> Returned(1)

\* the hasher ran out of stack going round a cycle of two or more files
C15_Witness ==
  /\ pc = "ERROR"
  /\ hash[1] # <<>>
  /\ Last(stderr) = "RecursionError"
  /\ Cardinality({f \in Elements(fed[1]) : Count(fed[1], f) >= 2}) >= 2

(***************************************************************************)
(* C16: when both builds have succeeded and the graph of either tree       *)
(* reaches a file that does not exist or a directive path with '$', the    *)
(* run computes and compares no digest, writes no archive and never        *)
(* reports success; when it has ended it has ended with that error and a   *)
(* nonzero exit code, whichever tree raised it and whatever the other tree *)
(* holds; and no step of main() follows the error: nothing is caught,      *)
(* nothing is retried.                                                     *)
(***************************************************************************)
ResolutionError == {"FileNotFoundError", "UnicodeDecodeError", MSG_VARIABLES}

C16_Safety ==
  /\ (success[1] /\ success[2] /\ \E t \in 1..2 : ~WellFormed(t)) =>
       /\ pc \in {CHECK[1], CHECK[2], RESOLVE[1], RESOLVE[2], "ERROR"}
       /\ fed = [i \in 1..2 |-> <<>>]
       /\ hash = [i \in 1..2 |-> <<>>]
       /\ dist = <<>>
       /\ stdout = <<>>
       /\ NoDuplicates(opened)
  /\ pc = "ERROR" =>
       /\ success[1] /\ success[2]
       /\ \E t \in 1..2 : ~WellFormed(t) /\ ~Returned(t)
       /\ exit_code = 1
       /\ stderr # <<>> /\ Last(stderr) \in ResolutionError
       /\ stack = <<>>

C16_ResolutionErrorIsFatal ==
  /\ []C16_Safety
  /\ [][pc # "ERROR"]_vars

\* the run ended with the error of tree 2, tree 1 resolved without error
C16_Witness ==
  /\ pc = "ERROR"
  /\ Returned(1)
  /\ WellFormed(1)
  /\ ~WellFormed(2)

(***************************************************************************)
(* One file under several spellings.                                       *)
(***************************************************************************)
\* the paths of a list that name the file stored as p
Spellings(q, p) == {q[k] : k \in {j \in 1..Len(q) : normpath(q[j]) = p}}

\* how many entries of a list name the file stored as p
CountFile(q, p) == Cardinality({k \in 1..Len(q) : normpath(q[k]) = p})

(***************************************************************************)
(* C17, as claimed: the seen registry is keyed by normalized path: two     *)
(* directives that spell the path of one file differently map to one key,  *)
(* so that every file is scanned once and appears once in the manifest.    *)
(***************************************************************************)
C17_SeenKeyedByNormalizedPath ==
  /\ \A key \in seen : key = normpath(key)
  /\ \A p \in DOMAIN files : CountFile(opened, p) <= 1
  /\ \A p \in DOMAIN files : CountFile(ninja_files[1], p) <= 1

(***************************************************************************)
(* C17, amended: the seen registry is keyed by the path as joined:         *)
(* os.path.join(out_dir, path less a leading 'out/'), not normalised.  Its *)
(* keys are the paths that were opened, as spelled.  Two directives that   *)
(* spell the path of one file differently are two keys: the file is        *)
(* scanned once for every spelling the graph reaches it under, and appears *)
(* in the manifest once under each.                                        *)
(***************************************************************************)
C17_SeenKeyedByJoinedPath ==
  /\ seen = Elements(opened)
  /\ \A key \in seen :
       \/ key = root_file(1)
       \/ \E f \in seen : key \in Elements(Targets(1, f))
  /\ (Returned(1) /\ WellFormed(1)) =>
       \A p \in DOMAIN files :
         LET spelled == {f \in Reachable(1) : normpath(f) = p}
         IN  /\ CountFile(opened, p) = Cardinality(spelled)
             /\ Spellings(ninja_files[1], p) = spelled
             /\ CountFile(ninja_files[1], p) = Cardinality(spelled)

\* the walk returned a manifest that lists a file under two spellings, one
\* of them with a '.' or '..' component
C17_Witness ==
  /\ Returned(1)
  /\ \E p \in DOMAIN files :
       /\ CountFile(ninja_files[1], p) = 2
       /\ \E f \in Spellings(ninja_files[1], p) : f # p /\ Contains(f, ".")

(***************************************************************************)
(* C18: on a tree-shaped graph (no cycle, every file present and reached   *)
(* from the root along exactly one inclusion path) the two hashing routes  *)
(* agree: hash_files over the manifest the resolver returns feeds the      *)
(* files hash_ninja_file feeds from the same root, in the same order, and  *)
(* gives the same digest.  Where the walks both return and the digests     *)
(* differ, some file is reached along two inclusion paths.                 *)
(***************************************************************************)
\* some file of tree t is reached along two inclusion paths, or under two
\* spellings of its path
ReachedTwice(t) ==
  \/ \E f \in Reachable(t) : PathCount(t, root_file(t), f) >= 2
  \/ \E f, g \in Reachable(t) : f # g /\ normpath(f) = normpath(g)

TreeShaped(t) == WellFormed(t) /\ Acyclic(t) /\ ~ReachedTwice(t)

\* the resolver has run on tree t: hash_files over its manifest feeds what
\* the walk of hash_ninja_file feeds, and gives its digest
ResolverRouteAgrees(t) ==
  /\ hash_files_feed(ninja_files[t]) = hash_ninja_file_feed(t, root_file(t), 0)
  /\ hash_files(ninja_files[t]) = hash_ninja_file_digest(t)

\* hash_ninja_file has run on tree t: its hasher was fed what hash_files
\* feeds over the manifest of the graph, and holds its digest
HasherRouteAgrees(t) ==
  /\ fed[t] = hash_files_feed(Preorder(t))
  /\ hash[t] = <<hash_files(Preorder(t))>>

\* "agree unless reached twice" states both halves at once: on a tree-shaped
\* graph the routes agree, and where they differ a file is reached twice
C18_RoutesAgreeOnTrees ==
  /\ (Returned(1) /\ WellFormed(1) /\ Acyclic(1)) =>
       (ResolverRouteAgrees(1) \/ ReachedTwice(1))
  /\ (HasherEnded /\ WellFormed(1) /\ Acyclic(1)) =>
       /\ pc = "HASHED"
       /\ HasherRouteAgrees(1) \/ ReachedTwice(1)

\* hash_ninja_file returned on a tree-shaped graph of three files or more
\* whose root holds two directives
C18_Witness ==
  /\ HasherEnded
  /\ pc = "HASHED"
  /\ TreeShaped(1)
  /\ Len(fed[1]) >= 3
  /\ Len(Targets(1, root_file(1))) = 2

====
